---- MODULE Spec2Model ----
(***************************************************************************)
(* State-machine model of mcp-server-agenda (src/mcp_server_agenda/        *)
(* server.py): the in-memory note store, the resource / prompt / tool      *)
(* handlers, the x-callback URL construction and the external invoker.     *)
(*                                                                         *)
(* Python strings are sequences of one-character strings; a literal of the *)
(* source that is never taken apart (a message prefix, a URL base, a       *)
(* parameter key) is kept as one element.  Receive hands a request to its  *)
(* handler; a handler runs without interruption up to its return or to an  *)
(* await.  add-note awaits the resource-list-changed notification after it *)
(* has written the store: the call is then suspended (waiting), other      *)
(* requests are served, and NotificationDone ends the call.                *)
(***************************************************************************)
EXTENDS Integers, Sequences, FiniteSets, TLC

VARIABLES notes, pc, req, resp, handed, outcome, notified, waiting, added

vars == <<notes, pc, req, resp, handed, outcome, notified, waiting, added>>

(***************************************************************************)
(* Bounds                                                                  *)
(***************************************************************************)
MaxNotes == 2

MaxOptional == 2

MaxSuspended == 1

(***************************************************************************)
(* Python string helpers                                                   *)
(***************************************************************************)
Unreserved == {"A", "B", "C", "T", "a", "b", "c", "e", "f", "i", "l", "m",
               "n", "o", "r", "s", "t", "u", "w", "x", "y", "z", "-", "/"}

\* urllib.parse.quote on one character: letters, digits, "_.-~" and the
\* default safe "/" pass through, every other character becomes %XX.
quoteChar(c) ==
    CASE c \in Unreserved -> <<c>>
      [] c = " " -> <<"%", "2", "0">>
      [] c = "#" -> <<"%", "2", "3">>
      [] c = "%" -> <<"%", "2", "5">>
      [] c = "&" -> <<"%", "2", "6">>
      [] c = "+" -> <<"%", "2", "B">>
      [] c = "=" -> <<"%", "3", "D">>
      [] c = "?" -> <<"%", "3", "F">>

RECURSIVE quote(_)
quote(s) == IF s = <<>> THEN <<>> ELSE quoteChar(Head(s)) \o quote(Tail(s))

lowerChar(c) ==
    CASE c = "A" -> "a"
      [] c = "B" -> "b"
      [] c = "C" -> "c"
      [] c = "F" -> "f"
      [] c = "T" -> "t"
      [] OTHER -> c

lower(s) == [i \in 1..Len(s) |-> lowerChar(s[i])]

RECURSIVE lstrip(_, _)
lstrip(s, ch) ==
    IF s # <<>> /\ Head(s) = ch THEN lstrip(Tail(s), ch) ELSE s

RECURSIVE join(_, _)
join(sep, parts) ==
    IF parts = <<>> THEN <<>>
    ELSE IF Len(parts) = 1 THEN parts[1]
    ELSE parts[1] \o <<sep>> \o join(sep, Tail(parts))

(***************************************************************************)
(* JSON values of an argument bag and the bag itself                       *)
(***************************************************************************)
Keys == {"name", "content", "style", "title", "text", "project_title",
         "on_the_agenda", "date", "start_date", "end_date", "template_name",
         "template_input", "collapsed", "completed", "pinned", "footnote",
         "select", "category_title", "identifier", "sort_order",
         "separate_window"}

Absent == [t |-> "absent", s |-> <<>>, b |-> FALSE]

StrV(s) == [t |-> "str", s |-> s, b |-> FALSE]

BoolV(b) == [t |-> "bool", s |-> <<>>, b |-> b]

\* str(v)
PyStr(v) ==
    CASE v.t = "str" -> v.s
      [] v.t = "bool" -> IF v.b THEN <<"T", "r", "u", "e">>
                                ELSE <<"F", "a", "l", "s", "e">>
      [] OTHER -> <<"N", "o", "n", "e">>

\* Python truthiness of a value; dict.get of a missing key is None (falsy)
Truthy(v) ==
    CASE v.t = "str" -> v.s # <<>>
      [] v.t = "bool" -> v.b
      [] OTHER -> FALSE

EmptyBag == [k \in Keys |-> Absent]

Bag(f) == [k \in Keys |-> IF k \in DOMAIN f THEN f[k] ELSE Absent]

NoArgs == [isNone |-> TRUE, bag |-> EmptyBag]

Args(f) == [isNone |-> FALSE, bag |-> Bag(f)]

\* key in arguments
Has(arguments, k) == arguments.bag[k].t # "absent"

\* not arguments: None or the empty dict
NotArguments(arguments) ==
    arguments.isNone \/ \A k \in Keys : ~Has(arguments, k)

(***************************************************************************)
(* Responses                                                               *)
(***************************************************************************)
NoResp == [kind |-> "none", cls |-> "", msg |-> <<>>, value |-> <<>>]

Raise(cls, msg) == [kind |-> "error", cls |-> cls, msg |-> msg, value |-> <<>>]

Return(v) == [kind |-> "result", cls |-> "", msg |-> <<>>, value |-> v]

TextContent(text) == [type |-> "text", text |-> text]

(***************************************************************************)
(* The note store: a dict in insertion order; keys and contents are the    *)
(* values the argument bag carried                                         *)
(***************************************************************************)
NoteKeys(d) == {d[i].name : i \in 1..Len(d)}

IndexOf(d, n) == CHOOSE i \in 1..Len(d) : d[i].name = n

NoteGet(d, n) == d[IndexOf(d, n)].content

\* a store that appends on every write, also for a key it already holds
NotePut_AlwaysAppend(d, n, c) == Append(d, [name |-> n, content |-> c])

\* d[n] = c: a new key is appended, an existing key keeps its position
NotePut(d, n, c) ==
    IF n \in NoteKeys(d)
    THEN [d EXCEPT ![IndexOf(d, n)] = [name |-> n, content |-> c]]
    ELSE Append(d, [name |-> n, content |-> c])

(***************************************************************************)
(* Resources                                                               *)
(***************************************************************************)
NoUri == [scheme |-> "", host |-> "", hasPath |-> FALSE, path |-> <<>>]

\* AnyUrl(f"note://internal/{name}") for a name whose str() is made of
\* letters and "/": scheme "note", host "internal", path "/" + str(name)
NoteUri(name) ==
    [scheme |-> "note", host |-> "internal", hasPath |-> TRUE,
     path |-> <<"/">> \o PyStr(name)]

Resource(name) ==
    [uri |-> NoteUri(name),
     name |-> <<"Note: ">> \o PyStr(name),
     description |-> <<"A simple note named ">> \o PyStr(name),
     mimeType |-> "text/plain"]

handle_list_resources(d) ==
    Return([i \in 1..Len(d) |-> Resource(d[i].name)])

\* a lookup that answers an absent name with the empty string
handle_read_resource_Get(d, uri) ==
    IF uri.scheme # "note"
    THEN Raise("ValueError", <<"Unsupported URI scheme: ", uri.scheme>>)
    ELSE IF uri.hasPath
    THEN LET name == lstrip(uri.path, "/")
         IN  IF StrV(name) \in NoteKeys(d)
             THEN Return(NoteGet(d, StrV(name)))
             ELSE Return(StrV(<<>>))
    ELSE Raise("ValueError", <<"Note not found: ", "None">>)

handle_read_resource(d, uri) ==
    IF uri.scheme # "note"
    THEN Raise("ValueError", <<"Unsupported URI scheme: ", uri.scheme>>)
    ELSE IF uri.hasPath
    THEN LET name == lstrip(uri.path, "/")
         IN  IF StrV(name) \in NoteKeys(d)
             THEN Return(NoteGet(d, StrV(name)))
             ELSE Raise("KeyError", <<"'">> \o name \o <<"'">>)
    ELSE Raise("ValueError", <<"Note not found: ", "None">>)

(***************************************************************************)
(* Prompts                                                                 *)
(***************************************************************************)
handle_list_prompts ==
    Return(<<[name |-> "summarize-notes",
              description |-> "Creates a summary of all notes",
              arguments |-> <<[name |-> "style", required |-> FALSE]>>]>>)

NoteLine(note) ==
    <<"- ">> \o PyStr(note.name) \o <<": ">> \o PyStr(note.content)

handle_get_prompt(d, name, arguments) ==
    IF name # "summarize-notes"
    THEN Raise("ValueError", <<"Unknown prompt: ", name>>)
    ELSE LET style == IF ~NotArguments(arguments) /\ Has(arguments, "style")
                      THEN arguments.bag["style"]
                      ELSE StrV(<<"brief">>)
             detail_prompt == IF style = StrV(<<"detailed">>)
                              THEN <<" Give extensive details.">>
                              ELSE <<>>
         IN  Return([description |-> "Summarize the current notes",
                     role |-> "user",
                     text |-> <<"Here are the current notes to summarize:">>
                              \o detail_prompt \o <<"\n\n">>
                              \o join("\n", [i \in 1..Len(d) |-> NoteLine(d[i])])])

(***************************************************************************)
(* Tool catalog                                                            *)
(***************************************************************************)
ToolNames == <<"add-note", "create-agenda-note", "create-agenda-project",
               "open-agenda-note">>

ToolRequired(tool) ==
    CASE tool = "add-note" -> {"name", "content"}
      [] tool = "create-agenda-note" -> {"title", "text"}
      [] tool = "create-agenda-project" -> {"title"}
      [] tool = "open-agenda-note" -> {}

StringFields(tool) ==
    CASE tool = "add-note" -> {"name", "content"}
      [] tool = "create-agenda-note" ->
            {"title", "text", "project_title", "date", "start_date",
             "end_date", "template_name", "template_input"}
      [] tool = "create-agenda-project" ->
            {"title", "category_title", "identifier", "sort_order"}
      [] tool = "open-agenda-note" -> {"title", "identifier", "project_title"}

BooleanFields(tool) ==
    CASE tool = "add-note" -> {}
      [] tool = "create-agenda-note" ->
            {"on_the_agenda", "collapsed", "completed", "pinned", "footnote",
             "select"}
      [] tool = "create-agenda-project" -> {"select"}
      [] tool = "open-agenda-note" -> {"separate_window"}

handle_list_tools ==
    Return([i \in 1..Len(ToolNames) |->
              [name |-> ToolNames[i],
               strings |-> StringFields(ToolNames[i]),
               booleans |-> BooleanFields(ToolNames[i]),
               required |-> ToolRequired(ToolNames[i])]])

(***************************************************************************)
(* External invoker                                                        *)
(***************************************************************************)
Outcomes == {"ok", "CalledProcessError", "FileNotFoundError"}

\* XCallbackURLHandler.call_url: subprocess.run(['open', url], check=True).
\* A non-zero exit is re-raised as RuntimeError; any other failure of the
\* invocation (no 'open' executable) propagates as it is.
call_url(url, oc) ==
    CASE oc = "ok" -> [raised |-> FALSE, cls |-> "", msg |-> <<>>]
      [] oc = "CalledProcessError" ->
            [raised |-> TRUE, cls |-> "RuntimeError",
             msg |-> <<"Failed to execute x-callback-url: ",
                       "Command '['open', '">> \o url
                     \o <<"']' returned non-zero exit status 1.">>]
      [] oc = "FileNotFoundError" ->
            [raised |-> TRUE, cls |-> "FileNotFoundError",
             msg |-> <<"[Errno 2] No such file or directory: 'open'">>]

(***************************************************************************)
(* URL construction                                                        *)
(* The params list is built statement by statement; a statement either     *)
(* appends to the list or raises, and the first one that raises ends the   *)
(* call (the construction is outside the try).                             *)
(***************************************************************************)
Ok(params) == [err |-> NoResp, params |-> params]

Fail(e) == [err |-> e, params |-> <<>>]

\* arguments[k] of a key that is not in the dict
Subscript(k) == Raise("KeyError", <<"'", k, "'">>)

\* quote(v) of a value that is not a str
QuoteTypeError == Raise("TypeError", <<"quote_from_bytes() expected bytes">>)

\* params.append(f"{key}={quote(arguments[k])}")
QuoteParam(arguments, k, key) ==
    IF ~Has(arguments, k) THEN Fail(Subscript(k))
    ELSE IF arguments.bag[k].t # "str" THEN Fail(QuoteTypeError)
    ELSE Ok(<<<<key, "=">> \o quote(arguments.bag[k].s)>>)

\* params.append(f"{key}={str(arguments[k]).lower()}")
LowerParam(arguments, k, key) ==
    IF ~Has(arguments, k) THEN Fail(Subscript(k))
    ELSE Ok(<<<<key, "=">> \o lower(PyStr(arguments.bag[k]))>>)

\* params.append(f"{key}={arguments[k]}")
RawParam(arguments, k, key) ==
    IF ~Has(arguments, k) THEN Fail(Subscript(k))
    ELSE Ok(<<<<key, "=">> \o PyStr(arguments.bag[k])>>)

OptQuote(arguments, k, key) ==
    IF Has(arguments, k) THEN QuoteParam(arguments, k, key) ELSE Ok(<<>>)

OptLower(arguments, k, key) ==
    IF Has(arguments, k) THEN LowerParam(arguments, k, key) ELSE Ok(<<>>)

OptRaw(arguments, k, key) ==
    IF Has(arguments, k) THEN RawParam(arguments, k, key) ELSE Ok(<<>>)

RECURSIVE Appended(_)
Appended(steps) ==
    IF steps = <<>> THEN <<>> ELSE Head(steps).params \o Appended(Tail(steps))

\* the statements in source order: the first failure, or all the params
Statements(steps) ==
    IF \E i \in 1..Len(steps) : steps[i].err.kind = "error"
    THEN steps[CHOOSE i \in 1..Len(steps) :
                  /\ steps[i].err.kind = "error"
                  /\ \A j \in 1..(i - 1) : steps[j].err.kind # "error"]
    ELSE Ok(Appended(steps))

BuildUrl(base_url, params) == <<base_url, "?">> \o join("&", params)

\* a builder that appends date before on-the-agenda
CreateNoteParams_Reordered(arguments) ==
    Statements(<<QuoteParam(arguments, "title", "title"),
                 QuoteParam(arguments, "text", "text"),
                 OptQuote(arguments, "project_title", "project-title"),
                 OptQuote(arguments, "date", "date"),
                 OptLower(arguments, "on_the_agenda", "on-the-agenda"),
                 OptQuote(arguments, "start_date", "start-date"),
                 OptQuote(arguments, "end_date", "end-date"),
                 OptQuote(arguments, "template_name", "template-name"),
                 OptQuote(arguments, "template_input", "template-input"),
                 OptLower(arguments, "collapsed", "collapsed"),
                 OptLower(arguments, "completed", "completed"),
                 OptLower(arguments, "pinned", "pinned"),
                 OptLower(arguments, "footnote", "footnote"),
                 OptLower(arguments, "select", "select")>>)

CreateNoteParams(arguments) ==
    Statements(<<QuoteParam(arguments, "title", "title"),
                 QuoteParam(arguments, "text", "text"),
                 OptQuote(arguments, "project_title", "project-title"),
                 OptLower(arguments, "on_the_agenda", "on-the-agenda"),
                 OptQuote(arguments, "date", "date"),
                 OptQuote(arguments, "start_date", "start-date"),
                 OptQuote(arguments, "end_date", "end-date"),
                 OptQuote(arguments, "template_name", "template-name"),
                 OptQuote(arguments, "template_input", "template-input"),
                 OptLower(arguments, "collapsed", "collapsed"),
                 OptLower(arguments, "completed", "completed"),
                 OptLower(arguments, "pinned", "pinned"),
                 OptLower(arguments, "footnote", "footnote"),
                 OptLower(arguments, "select", "select")>>)

CreateProjectParams(arguments) ==
    Statements(<<QuoteParam(arguments, "title", "title"),
                 OptQuote(arguments, "category_title", "category-title"),
                 OptQuote(arguments, "identifier", "identifier"),
                 OptLower(arguments, "select", "select"),
                 OptRaw(arguments, "sort_order", "sort-order")>>)

OpenNoteParams(arguments) ==
    Statements(<<OptQuote(arguments, "title", "title"),
                 OptQuote(arguments, "identifier", "identifier"),
                 OptQuote(arguments, "project_title", "project-title"),
                 OptLower(arguments, "separate_window", "separate-window")>>)

(***************************************************************************)
(* call-tool                                                               *)
(* Each handler yields the response, the store after the call, the URLs    *)
(* handed to the invoker, whether a resource-list-changed notification was *)
(* sent, and whether the handler reached the await of that notification    *)
(* (the store is written before the await, the response comes after it).   *)
(***************************************************************************)
Effect(r, d, urls, n, w) ==
    [resp |-> r, notes |-> d, handed |-> urls, notified |-> n, awaits |-> w]

\* await session.send_resource_list_changed(): the notification is sent,
\* the send fails, or the task is cancelled while it waits
NotifyOutcomes == {"sent", "failed", "cancelled"}

send_resource_list_changed(no) ==
    CASE no = "sent" -> NoResp
      [] no = "failed" ->
            Raise("Exception", <<"send_resource_list_changed failed">>)
      [] no = "cancelled" -> Raise("CancelledError", <<>>)

\* a dispatch without the try / except: the invoker's exception propagates
Dispatch_Uncaught(d, url, oc, confirmation, failure) ==
    LET r == call_url(url, oc)
    IN  [resp |-> IF r.raised THEN Raise(r.cls, r.msg)
                  ELSE Return(<<TextContent(confirmation)>>),
         notes |-> d, handed |-> <<url>>, notified |-> FALSE,
         awaits |-> FALSE]

\* try: call_url(url); return [confirmation]  except Exception as e:
\* return [f"{failure}: {str(e)}"]
Dispatch(d, url, oc, confirmation, failure) ==
    LET r == call_url(url, oc)
    IN  Effect(Return(<<TextContent(IF r.raised
                                    THEN <<failure, ": ">> \o r.msg
                                    ELSE confirmation)>>),
               d, <<url>>, FALSE, FALSE)

MissingArguments(d) ==
    Effect(Raise("ValueError", <<"Missing arguments">>), d, <<>>, FALSE, FALSE)

\* an add-note that checks the name only
add_note_NameOnly(d, arguments, no) ==
    IF NotArguments(arguments) THEN MissingArguments(d)
    ELSE LET note_name == arguments.bag["name"]
             content == arguments.bag["content"]
             sent == send_resource_list_changed(no)
         IN  IF ~Truthy(note_name)
             THEN Effect(Raise("ValueError", <<"Missing name or content">>),
                         d, <<>>, FALSE, FALSE)
             ELSE Effect(IF sent.kind = "error" THEN sent
                         ELSE Return(<<TextContent(<<"Added note '">>
                                         \o PyStr(note_name)
                                         \o <<"' with content: ">>
                                         \o PyStr(content))>>),
                         NotePut(d, note_name,
                                 IF content.t = "absent" THEN StrV(<<>>)
                                 ELSE content),
                         <<>>, no = "sent", TRUE)

\* an add-note that writes the store before it validates
add_note_StoreFirst(d, arguments, no) ==
    IF NotArguments(arguments) THEN MissingArguments(d)
    ELSE LET note_name == arguments.bag["name"]
             content == arguments.bag["content"]
             sent == send_resource_list_changed(no)
             stored == NotePut(d, note_name, content)
         IN  IF ~Truthy(note_name) \/ ~Truthy(content)
             THEN Effect(Raise("ValueError", <<"Missing name or content">>),
                         stored, <<>>, FALSE, FALSE)
             ELSE Effect(IF sent.kind = "error" THEN sent
                         ELSE Return(<<TextContent(<<"Added note '">>
                                         \o PyStr(note_name)
                                         \o <<"' with content: ">>
                                         \o PyStr(content))>>),
                         stored, <<>>, no = "sent", TRUE)

\* The dict is keyed by the value itself (True and "True" are two keys).
\* A call that passes both checks writes the store and then awaits the
\* notification: whatever the await does, the note stays stored.
add_note(d, arguments, no) ==
    IF NotArguments(arguments) THEN MissingArguments(d)
    ELSE LET note_name == arguments.bag["name"]
             content == arguments.bag["content"]
             sent == send_resource_list_changed(no)
         IN  IF ~Truthy(note_name) \/ ~Truthy(content)
             THEN Effect(Raise("ValueError", <<"Missing name or content">>),
                         d, <<>>, FALSE, FALSE)
             ELSE Effect(IF sent.kind = "error" THEN sent
                         ELSE Return(<<TextContent(<<"Added note '">>
                                         \o PyStr(note_name)
                                         \o <<"' with content: ">>
                                         \o PyStr(content))>>),
                         NotePut(d, note_name, content),
                         <<>>, no = "sent", TRUE)

create_agenda_note(d, arguments, oc) ==
    IF NotArguments(arguments) THEN MissingArguments(d)
    ELSE LET p == CreateNoteParams(arguments)
         IN  IF p.err.kind = "error"
             THEN Effect(p.err, d, <<>>, FALSE, FALSE)
             ELSE Dispatch(d,
                           BuildUrl("agenda://x-callback-url/create-note",
                                    p.params),
                           oc,
                           <<"Created note '">>
                               \o PyStr(arguments.bag["title"])
                               \o <<"' in Agenda">>,
                           "Failed to create note in Agenda")

create_agenda_project(d, arguments, oc) ==
    IF NotArguments(arguments) THEN MissingArguments(d)
    ELSE LET p == CreateProjectParams(arguments)
         IN  IF p.err.kind = "error"
             THEN Effect(p.err, d, <<>>, FALSE, FALSE)
             ELSE Dispatch(d,
                           BuildUrl("agenda://x-callback-url/create-project",
                                    p.params),
                           oc,
                           <<"Created project '">>
                               \o PyStr(arguments.bag["title"])
                               \o <<"' in Agenda">>,
                           "Failed to create project in Agenda")

\* arguments.get('title', arguments.get('identifier', 'requested note'))
NoteDesc(arguments) ==
    IF Has(arguments, "title") THEN PyStr(arguments.bag["title"])
    ELSE IF Has(arguments, "identifier")
    THEN PyStr(arguments.bag["identifier"])
    ELSE <<"requested note">>

\* an open-agenda-note without the title / identifier precondition
open_agenda_note_Unchecked(d, arguments, oc) ==
    IF NotArguments(arguments) THEN MissingArguments(d)
    ELSE LET p == OpenNoteParams(arguments)
         IN  IF p.err.kind = "error"
             THEN Effect(p.err, d, <<>>, FALSE, FALSE)
             ELSE Dispatch(d,
                           BuildUrl("agenda://x-callback-url/open-note",
                                    p.params),
                           oc,
                           <<"Opened note '">> \o NoteDesc(arguments)
                               \o <<"' in Agenda">>,
                           "Failed to open note in Agenda")

open_agenda_note(d, arguments, oc) ==
    IF NotArguments(arguments) THEN MissingArguments(d)
    ELSE IF ~(Has(arguments, "title") \/ Has(arguments, "identifier"))
    THEN Effect(Raise("ValueError",
                      <<"Either title or identifier must be provided">>),
                d, <<>>, FALSE, FALSE)
    ELSE LET p == OpenNoteParams(arguments)
         IN  IF p.err.kind = "error"
             THEN Effect(p.err, d, <<>>, FALSE, FALSE)
             ELSE Dispatch(d,
                           BuildUrl("agenda://x-callback-url/open-note",
                                    p.params),
                           oc,
                           <<"Opened note '">> \o NoteDesc(arguments)
                               \o <<"' in Agenda">>,
                           "Failed to open note in Agenda")

handle_call_tool(d, name, arguments, oc, no) ==
    CASE name = "add-note" -> add_note(d, arguments, no)
      [] name = "create-agenda-note" -> create_agenda_note(d, arguments, oc)
      [] name = "create-agenda-project" ->
            create_agenda_project(d, arguments, oc)
      [] name = "open-agenda-note" -> open_agenda_note(d, arguments, oc)
      [] OTHER -> Effect(Raise("ValueError", <<"Unknown tool: ", name>>),
                         d, <<>>, FALSE, FALSE)

(***************************************************************************)
(* Requests                                                                *)
(***************************************************************************)
NoReq == [op |-> "none", name |-> "", arguments |-> NoArgs, uri |-> NoUri]

Request(op) == [NoReq EXCEPT !.op = op]

ReadRequest(uri) == [NoReq EXCEPT !.op = "read_resource", !.uri = uri]

PromptRequest(name, arguments) ==
    [NoReq EXCEPT !.op = "get_prompt", !.name = name, !.arguments = arguments]

ToolRequest(name, arguments) ==
    [NoReq EXCEPT !.op = "call_tool", !.name = name, !.arguments = arguments]

ArgsOf(bag) == [isNone |-> FALSE, bag |-> bag]

\* names a call may carry: strings, and a value that is not a string
NoteNames == {StrV(<<"/", "a">>), StrV(<<"a", "/", "b">>),
              StrV(<<"T", "r", "u", "e">>), BoolV(TRUE)}

NoteContents == {StrV(<<"x">>), StrV(<<"y">>)}

OptStr(S) == {Absent} \cup {StrV(s) : s \in S}

AddNoteArgs ==
    {NoArgs} \cup
    {ArgsOf([EmptyBag EXCEPT !["name"] = n, !["content"] = c]) :
        n \in NoteNames \cup {Absent, StrV(<<>>)},
        c \in NoteContents \cup {Absent, StrV(<<>>)}}

ReadUris ==
    {NoteUri(n) :
        n \in NoteNames \cup {StrV(<<>>),
                              StrV(<<"m", "i", "s", "s", "i", "n", "g">>)}}
    \cup {[scheme |-> "other", host |-> "x", hasPath |-> FALSE, path |-> <<>>],
          [scheme |-> "note", host |-> "internal", hasPath |-> FALSE,
           path |-> <<>>]}

PromptArgs ==
    {NoArgs, Args([style |-> StrV(<<"detailed">>)]),
     Args([style |-> StrV(<<"brief">>)])}

AgendaTools == {"create-agenda-note", "create-agenda-project",
                "open-agenda-note"}

TitleSamples == {<<"A", " ", "B">>, <<>>}

TextSamples == {<<"C">>, <<>>}

\* values a string field may carry; the last one is not a string
StrSamples == {StrV(<<"A", " ", "B">>), StrV(<<"x", "&", "y", "=", "z">>),
               BoolV(TRUE)}

\* the values the string fields share when many optional fields are set
ManySamples == {StrV(<<"A", " ", "B">>), BoolV(TRUE)}

BoolSamples == {BoolV(TRUE), BoolV(FALSE), StrV(<<"T", "&", "x", "=", "y">>)}

SortSamples ==
    {StrV(<<"n", "e", "w", "e", "s", "t", "-", "f", "i", "r", "s", "t">>),
     StrV(<<"o", "l", "d", "e", "s", "t", "-", "f", "i", "r", "s", "t">>),
     StrV(<<"a", "&", "b", "=", "c">>)}

Samples(tool, k) ==
    IF k = "sort_order" THEN SortSamples
    ELSE IF k \in BooleanFields(tool) THEN BoolSamples
    ELSE StrSamples

OptionalFields(tool) ==
    (StringFields(tool) \cup BooleanFields(tool))
    \ (ToolRequired(tool) \cup (IF tool = "open-agenda-note"
                                 THEN {"title", "identifier"} ELSE {}))

\* the bags over the fields the call-time precondition is about
RequiredBags(tool) ==
    CASE tool = "create-agenda-note" ->
            {[EmptyBag EXCEPT !["title"] = t, !["text"] = x] :
                t \in OptStr(TitleSamples) \cup {BoolV(TRUE)},
                x \in OptStr(TextSamples) \cup {BoolV(FALSE)}}
      [] tool = "create-agenda-project" ->
            {[EmptyBag EXCEPT !["title"] = t] :
                t \in OptStr(TitleSamples) \cup {BoolV(TRUE)}}
      [] tool = "open-agenda-note" ->
            {[EmptyBag EXCEPT !["title"] = t, !["identifier"] = x] :
                t \in OptStr(TitleSamples),
                x \in OptStr({<<"i", "-", "a">>}) \cup {BoolV(TRUE)}}

\* the sets of at most MaxOptional optional fields
FewOptional(tool) ==
    {T \in SUBSET OptionalFields(tool) : Cardinality(T) <= MaxOptional}

\* the assignments of a value of its own to each field of S
OptionalValues(tool, S) ==
    {g \in [S -> StrSamples \cup BoolSamples \cup SortSamples] :
        \A k \in S : g[k] \in Samples(tool, k)}

FewOptionalBag(base, S, f) ==
    [k \in Keys |-> IF k \in S THEN f[k] ELSE base[k]]

ValidBase(tool) ==
    CASE tool = "create-agenda-note" ->
            [EmptyBag EXCEPT !["title"] = StrV(<<"A", " ", "B">>),
                             !["text"] = StrV(<<"C">>)]
      [] tool = "create-agenda-project" ->
            [EmptyBag EXCEPT !["title"] = StrV(<<"A", " ", "B">>)]
      [] tool = "open-agenda-note" ->
            [EmptyBag EXCEPT !["identifier"] = StrV(<<"i", "-", "a">>)]

\* any set S of optional fields; the string fields share one value and the
\* boolean fields share one value
AnyOptionalBag(tool, S, sv, bv) ==
    [k \in Keys |-> IF k \in S
                    THEN (IF k \in BooleanFields(tool) THEN bv ELSE sv)
                    ELSE ValidBase(tool)[k]]

\* the agenda calls delivered alongside the note-store traffic
FewAgendaRequests ==
    UNION {{ToolRequest(tool, a) :
               a \in {NoArgs, ArgsOf(ValidBase(tool)),
                      ArgsOf([ValidBase(tool) EXCEPT
                                 !["project_title"] = StrV(<<"A", " ", "B">>)]),
                      ArgsOf([EmptyBag EXCEPT
                                 !["project_title"] = BoolV(TRUE)])}} :
           tool \in AgendaTools}

StoreRequests ==
    {Request("list_resources"), Request("list_prompts"),
     Request("list_tools")}
    \cup {ReadRequest(u) : u \in ReadUris}
    \cup {PromptRequest(n, a) : n \in {"summarize-notes", "explain-notes"},
                               a \in PromptArgs}
    \cup {ToolRequest("add-note", a) : a \in AddNoteArgs}
    \cup {ToolRequest("delete-note", a) :
             a \in {NoArgs, Args([name |-> StrV(<<"a">>)])}}
    \cup FewAgendaRequests

(***************************************************************************)
(* The server                                                              *)
(***************************************************************************)
Init ==
    /\ notes = <<>>
    /\ pc = "idle"
    /\ req = NoReq
    /\ resp = NoResp
    /\ handed = <<>>
    /\ outcome = "none"
    /\ notified = FALSE
    /\ waiting = {}
    /\ added = {}

\* an add-note call that will store a note
StoresNote(r) ==
    /\ r.op = "call_tool"
    /\ r.name = "add-note"
    /\ ~NotArguments(r.arguments)
    /\ Truthy(r.arguments.bag["name"])
    /\ Truthy(r.arguments.bag["content"])

\* the store is capped at MaxNotes entries and the calls suspended in the
\* await at MaxSuspended
Admissible(r) ==
    StoresNote(r) =>
        /\ r.arguments.bag["name"] \in NoteKeys(notes)
           \/ Len(notes) < MaxNotes
        /\ Cardinality(waiting) < MaxSuspended
        /\ r \notin waiting

\* the protocol host delivers the next request
Receive(R) ==
    /\ pc = "idle"
    /\ \E r \in R : Admissible(r) /\ req' = r
    /\ pc' = "handling"
    /\ UNCHANGED <<notes, resp, handed, outcome, notified, waiting, added>>

Reply(r) ==
    /\ resp' = r
    /\ pc' = "replied"
    /\ UNCHANGED <<notes, req, handed, outcome, notified, waiting, added>>

ListResources ==
    /\ pc = "handling" /\ req.op = "list_resources"
    /\ Reply(handle_list_resources(notes))

ReadResource ==
    /\ pc = "handling" /\ req.op = "read_resource"
    /\ Reply(handle_read_resource(notes, req.uri))

ListPrompts ==
    /\ pc = "handling" /\ req.op = "list_prompts"
    /\ Reply(handle_list_prompts)

GetPrompt ==
    /\ pc = "handling" /\ req.op = "get_prompt"
    /\ Reply(handle_get_prompt(notes, req.name, req.arguments))

ListTools ==
    /\ pc = "handling" /\ req.op = "list_tools"
    /\ Reply(handle_list_tools)

\* handle_call_tool up to its return, or up to the await of add-note: there
\* the store is already written and the call is suspended; what the await
\* does is known when the call resumes
CallTool ==
    /\ pc = "handling" /\ req.op = "call_tool"
    /\ \E oc \in Outcomes :
          \E e \in {handle_call_tool(notes, req.name, req.arguments, oc,
                                     "sent")} :
             /\ notes' = e.notes
             /\ IF e.awaits
                THEN /\ waiting' = waiting \cup {req}
                     /\ added' = added \cup {req.arguments.bag["name"]}
                     /\ pc' = "idle"
                     /\ req' = NoReq
                     /\ UNCHANGED <<resp, handed, outcome, notified>>
                ELSE /\ resp' = e.resp
                     /\ handed' = e.handed
                     /\ notified' = e.notified
                     /\ outcome' = IF e.handed # <<>> THEN oc ELSE "none"
                     /\ pc' = "replied"
                     /\ UNCHANGED <<req, waiting, added>>

\* the await of a suspended add-note ends: the call returns its text, or
\* raises what the await raised; the note stays stored either way
NotificationDone ==
    /\ pc = "idle"
    /\ \E r \in waiting, no \in NotifyOutcomes :
          \E e \in {handle_call_tool(notes, r.name, r.arguments, "ok", no)} :
             /\ req' = r
             /\ resp' = e.resp
             /\ notified' = e.notified
             /\ waiting' = waiting \ {r}
    /\ pc' = "replied"
    /\ UNCHANGED <<notes, handed, outcome, added>>

SendReply ==
    /\ pc = "replied"
    /\ pc' = "idle"
    /\ req' = NoReq
    /\ resp' = NoResp
    /\ handed' = <<>>
    /\ outcome' = "none"
    /\ notified' = FALSE
    /\ UNCHANGED <<notes, waiting, added>>

ReceiveRequest == Receive(StoreRequests)

ReceiveAgendaRequest ==
    /\ pc = "idle"
    /\ \E tool \in AgendaTools :
          \/ req' = ToolRequest(tool, NoArgs)
          \/ \E base \in RequiredBags(tool), S \in FewOptional(tool) :
                /\ base = ValidBase(tool) \/ Cardinality(S) <= 1
                /\ \E f \in OptionalValues(tool, S) :
                      req' = ToolRequest(tool,
                                         ArgsOf(FewOptionalBag(base, S, f)))
          \/ \E S \in SUBSET OptionalFields(tool), sv \in ManySamples,
                bv \in {BoolV(TRUE), BoolV(FALSE)} :
                   req' = ToolRequest(tool,
                                      ArgsOf(AnyOptionalBag(tool, S, sv, bv)))
    /\ pc' = "handling"
    /\ UNCHANGED <<notes, resp, handed, outcome, notified, waiting, added>>

Next ==
    \/ ReceiveRequest
    \/ ListResources
    \/ ReadResource
    \/ ListPrompts
    \/ GetPrompt
    \/ ListTools
    \/ CallTool
    \/ NotificationDone
    \/ SendReply

Spec == Init /\ [][Next]_vars

NextAgenda ==
    \/ ReceiveAgendaRequest
    \/ CallTool
    \/ SendReply

SpecAgenda == Init /\ [][NextAgenda]_vars

TypeOK ==
    /\ pc \in {"idle", "handling", "replied"}
    /\ Len(notes) <= MaxNotes
    /\ Len(handed) <= 1
    /\ Cardinality(waiting) <= MaxSuspended

(***************************************************************************)
(* Vocabulary of the properties                                            *)
(***************************************************************************)
Replied(op) == pc = "replied" /\ req.op = op

Called(tool) == Replied("call_tool") /\ req.name = tool

\* a field that is missing from the bag or holds the empty string
MissingOrEmpty(arguments, k) ==
    \/ arguments.isNone
    \/ arguments.bag[k].t = "absent"
    \/ arguments.bag[k] = StrV(<<>>)

ValidAddNote(r) ==
    /\ r.op = "call_tool"
    /\ r.name = "add-note"
    /\ ~MissingOrEmpty(r.arguments, "name")
    /\ ~MissingOrEmpty(r.arguments, "content")

\* the handler of the pending request runs, to its return or to its await
Handles(op) == pc = "handling" /\ req.op = op /\ pc' # "handling"

RECURSIVE split(_, _)
split(s, sep) ==
    IF \E i \in 1..Len(s) : s[i] = sep
    THEN LET i == CHOOSE j \in 1..Len(s) :
                     s[j] = sep /\ \A h \in 1..(j - 1) : s[h] # sep
         IN  <<SubSeq(s, 1, i - 1)>> \o split(SubSeq(s, i + 1, Len(s)), sep)
    ELSE <<s>>

Count(s, ch) == Cardinality({i \in 1..Len(s) : s[i] = ch})

\* the key=value pairs of the query of a callback URL
QueryPairs(url) == split(SubSeq(url, 3, Len(url)), "&")

Fields(tool) == StringFields(tool) \cup BooleanFields(tool)

Present(tool, arguments) == {k \in Fields(tool) : Has(arguments, k)}

(***************************************************************************)
(* C1: for every name in the store, list-resources returns exactly one     *)
(* descriptor whose URI is note://internal/<name>, and read-resource on    *)
(* that URI returns the content stored under that name, also for names     *)
(* that begin with or contain "/".                                         *)
(***************************************************************************)
StringNames == \A n \in NoteKeys(notes) : n.t = "str"

C1_ListedAndReadable ==
    /\ (Replied("list_resources") /\ StringNames) =>
          \A n \in NoteKeys(notes) :
             Cardinality({i \in 1..Len(resp.value) :
                             resp.value[i].uri = NoteUri(n)}) = 1
    /\ (Replied("read_resource") /\ StringNames) =>
          \A n \in NoteKeys(notes) :
             req.uri = NoteUri(n) => resp = Return(NoteGet(notes, n))

(***************************************************************************)
(* C2: the store holds one entry per distinct name added; adding a new     *)
(* name raises the entry count by one, re-adding a name replaces its       *)
(* content and leaves the count and every other entry unchanged.           *)
(***************************************************************************)
C2_OneEntryPerName ==
    [][/\ Len(notes') = Cardinality(added')
       /\ NoteKeys(notes') = added'
       /\ (Handles("call_tool") /\ ValidAddNote(req)) =>
             LET n == req.arguments.bag["name"]
                 c == req.arguments.bag["content"]
             IN  /\ Len(notes') = IF n \in NoteKeys(notes)
                                  THEN Len(notes) ELSE Len(notes) + 1
                 /\ NoteKeys(notes') = NoteKeys(notes) \cup {n}
                 /\ NoteGet(notes', n) = c
                 /\ \A m \in NoteKeys(notes) \ {n} :
                       NoteGet(notes', m) = NoteGet(notes, m)]_vars

C2_Readded ==
    /\ Called("add-note") /\ ValidAddNote(req)
    /\ Len(notes) = 2
    /\ notes[1].name = req.arguments.bag["name"]
    /\ notes[1].content = StrV(<<"y">>)
    /\ resp.kind = "result"

(***************************************************************************)
(* C3: every entry of the store has a non-empty name and a non-empty       *)
(* content; an add-note call whose bag is absent or empty, or whose name   *)
(* or content is missing or empty, fails and stores nothing.               *)
(***************************************************************************)
C3_NonEmptyEntries ==
    [][/\ \A i \in 1..Len(notes') :
             /\ notes'[i].name \notin {Absent, StrV(<<>>)}
             /\ notes'[i].content \notin {Absent, StrV(<<>>)}
       /\ (/\ Handles("call_tool") /\ req.name = "add-note"
           /\ \/ MissingOrEmpty(req.arguments, "name")
              \/ MissingOrEmpty(req.arguments, "content")) =>
             (resp'.kind = "error" /\ notes' = notes)]_vars

C3_Rejected ==
    /\ Called("add-note")
    /\ ~MissingOrEmpty(req.arguments, "name")
    /\ req.arguments.bag["content"] = StrV(<<>>)
    /\ resp.kind = "error"
    /\ notes # <<>>

(***************************************************************************)
(* C4: read-resource fails when the scheme is not "note" (a validation     *)
(* error naming the scheme) or when the name taken from the path is not in *)
(* the store (a lookup error naming the note); nothing is returned and the *)
(* store is unchanged.                                                     *)
(***************************************************************************)
C4_ReadFails ==
    [][Handles("read_resource") =>
          /\ notes' = notes
          /\ req.uri.scheme # "note" =>
                /\ resp'.kind = "error" /\ resp'.cls = "ValueError"
                /\ resp'.value = <<>>
                /\ \E i \in 1..Len(resp'.msg) : resp'.msg[i] = req.uri.scheme
          /\ (/\ req.uri.scheme = "note" /\ req.uri.hasPath
              /\ StrV(lstrip(req.uri.path, "/")) \notin NoteKeys(notes)) =>
                /\ resp'.kind = "error" /\ resp'.cls = "KeyError"
                /\ resp'.value = <<>>
                /\ \E i \in 1..Len(resp'.msg) :
                      SubSeq(resp'.msg, i,
                             i + Len(lstrip(req.uri.path, "/")) - 1)
                         = lstrip(req.uri.path, "/")]_vars

C4_Missing ==
    /\ Replied("read_resource")
    /\ req.uri.scheme = "note" /\ req.uri.hasPath
    /\ Len(req.uri.path) > 1
    /\ notes # <<>>
    /\ resp.cls = "KeyError"

(***************************************************************************)
(* C5: create-agenda-note with title or text missing or empty, and         *)
(* create-agenda-project with title missing or empty, fails with the       *)
(* validation error class and hands no URL to the invoker.                 *)
(***************************************************************************)
C5_RequiredFieldsValidated ==
    /\ (/\ Called("create-agenda-note")
        /\ \/ MissingOrEmpty(req.arguments, "title")
           \/ MissingOrEmpty(req.arguments, "text")) =>
          (resp.kind = "error" /\ resp.cls = "ValueError" /\ handed = <<>>)
    /\ (/\ Called("create-agenda-project")
        /\ MissingOrEmpty(req.arguments, "title")) =>
          (resp.kind = "error" /\ resp.cls = "ValueError" /\ handed = <<>>)

(***************************************************************************)
(* C6: open-agenda-note with neither title nor identifier in the bag (an   *)
(* absent or empty bag included) fails with a validation error, and the    *)
(* invoker is not called and no URL is built in that call.                 *)
(***************************************************************************)
C6_OpenNeedsTitleOrIdentifier ==
    (/\ Called("open-agenda-note")
     /\ req.arguments.isNone
        \/ (~Has(req.arguments, "title") /\ ~Has(req.arguments, "identifier")))
    => /\ resp.kind = "error" /\ resp.cls = "ValueError"
       /\ handed = <<>>
       /\ outcome = "none"

C6_Neither ==
    /\ Called("open-agenda-note")
    /\ Has(req.arguments, "project_title")
    /\ ~Has(req.arguments, "title") /\ ~Has(req.arguments, "identifier")
    /\ resp.cls = "ValueError"

(***************************************************************************)
(* C7: in an agenda call that passes validation (its string fields holding *)
(* strings, as the tool's schema declares) the invoker is called, and      *)
(* whenever the invoker is called the call ends in exactly one text block: *)
(* the tool's failure prefix followed by the invoker's error text when the *)
(* invoker fails in any way, a confirmation when it succeeds; it does not  *)
(* raise.                                                                  *)
(***************************************************************************)
PassesValidation(r) ==
    CASE r.name = "create-agenda-note" ->
            /\ ~MissingOrEmpty(r.arguments, "title")
            /\ ~MissingOrEmpty(r.arguments, "text")
      [] r.name = "create-agenda-project" ->
            ~MissingOrEmpty(r.arguments, "title")
      [] r.name = "open-agenda-note" ->
            /\ ~r.arguments.isNone
            /\ Has(r.arguments, "title") \/ Has(r.arguments, "identifier")
      [] OTHER -> FALSE

FailurePrefix(tool) ==
    CASE tool = "create-agenda-note" -> "Failed to create note in Agenda"
      [] tool = "create-agenda-project" -> "Failed to create project in Agenda"
      [] tool = "open-agenda-note" -> "Failed to open note in Agenda"

ConfirmationPrefix(tool) ==
    CASE tool = "create-agenda-note" -> "Created note '"
      [] tool = "create-agenda-project" -> "Created project '"
      [] tool = "open-agenda-note" -> "Opened note '"

InvokerErrorText(oc) ==
    CASE oc = "CalledProcessError" -> "Failed to execute x-callback-url: "
      [] oc = "FileNotFoundError" ->
            "[Errno 2] No such file or directory: 'open'"

\* every string field of the tool that is in the bag holds a string
StringsAreStrings(r) ==
    \A k \in StringFields(r.name) :
       Has(r.arguments, k) => r.arguments.bag[k].t = "str"

C7_AlwaysText ==
    (Replied("call_tool") /\ req.name \in AgendaTools)
    => /\ (PassesValidation(req) /\ StringsAreStrings(req)) => Len(handed) = 1
       /\ handed # <<>> =>
             /\ resp.kind = "result"
             /\ Len(resp.value) = 1
             /\ resp.value[1].type = "text"
             /\ outcome = "ok" =>
                   Head(resp.value[1].text) = ConfirmationPrefix(req.name)
             /\ outcome # "ok" =>
                   /\ Head(resp.value[1].text) = FailurePrefix(req.name)
                   /\ \E i \in 2..Len(resp.value[1].text) :
                         resp.value[1].text[i] = InvokerErrorText(outcome)

C7_InvokerFailed ==
    /\ Called("create-agenda-project")
    /\ PassesValidation(req) /\ StringsAreStrings(req)
    /\ outcome = "CalledProcessError"
    /\ Head(resp.value[1].text) = "Failed to create project in Agenda"

(***************************************************************************)
(* C8: in every URL handed to the invoker no parameter value contains an   *)
(* unescaped "&", "=", "?", "#" or space, whatever value the bag carries   *)
(* for a string field, a boolean field or sort_order: the query has as     *)
(* many "&"-separated key=value pairs as parameters were appended.         *)
(***************************************************************************)
C8_ValuesEscaped ==
    (Replied("call_tool") /\ req.name \in AgendaTools /\ handed # <<>>)
    => LET pairs == QueryPairs(handed[1])
       IN  /\ Len(pairs) = Cardinality(Present(req.name, req.arguments))
           /\ \A i \in 1..Len(pairs) :
                 /\ Count(pairs[i], "=") = 1
                 /\ Count(pairs[i], "?") = 0
                 /\ Count(pairs[i], "#") = 0
                 /\ Count(pairs[i], " ") = 0

(***************************************************************************)
(* C9: for a valid create-agenda-note bag the URL is the create-note base, *)
(* one "?", and the "&"-joined parameters with keys title, text and then   *)
(* the optional fields present in the bag, in the documented order, each   *)
(* once; {title: "A B", text: "C"} gives ...create-note?title=A%20B&text=C *)
(***************************************************************************)
NoteOptionalOrder ==
    <<[k |-> "project_title", key |-> "project-title"],
      [k |-> "on_the_agenda", key |-> "on-the-agenda"],
      [k |-> "date", key |-> "date"],
      [k |-> "start_date", key |-> "start-date"],
      [k |-> "end_date", key |-> "end-date"],
      [k |-> "template_name", key |-> "template-name"],
      [k |-> "template_input", key |-> "template-input"],
      [k |-> "collapsed", key |-> "collapsed"],
      [k |-> "completed", key |-> "completed"],
      [k |-> "pinned", key |-> "pinned"],
      [k |-> "footnote", key |-> "footnote"],
      [k |-> "select", key |-> "select"]>>

\* title and text are there, string fields hold strings, boolean fields
\* hold booleans
ValidNoteBag(arguments) ==
    /\ ~arguments.isNone
    /\ Has(arguments, "title") /\ Has(arguments, "text")
    /\ \A k \in StringFields("create-agenda-note") :
          Has(arguments, k) => arguments.bag[k].t = "str"
    /\ \A k \in BooleanFields("create-agenda-note") :
          Has(arguments, k) => arguments.bag[k].t = "bool"

RECURSIVE ExpectedKeys(_, _)
ExpectedKeys(arguments, order) ==
    IF order = <<>> THEN <<>>
    ELSE (IF Has(arguments, Head(order).k) THEN <<Head(order).key>> ELSE <<>>)
         \o ExpectedKeys(arguments, Tail(order))

C9_CreateNoteUrl ==
    (Called("create-agenda-note") /\ ValidNoteBag(req.arguments))
    => /\ Len(handed) = 1
       /\ handed[1][1] = "agenda://x-callback-url/create-note"
       /\ handed[1][2] = "?"
       /\ Count(handed[1], "?") = 1
       /\ LET pairs == QueryPairs(handed[1])
              keys == <<"title", "text">>
                      \o ExpectedKeys(req.arguments, NoteOptionalOrder)
          IN  /\ Len(pairs) = Len(keys)
              /\ \A i \in 1..Len(pairs) :
                    /\ Len(pairs[i]) >= 2
                    /\ pairs[i][1] = keys[i]
                    /\ pairs[i][2] = "="
       /\ req.arguments.bag = Bag([title |-> StrV(<<"A", " ", "B">>),
                                   text |-> StrV(<<"C">>)])
          => handed[1] = <<"agenda://x-callback-url/create-note", "?",
                           "title", "=", "A", "%", "2", "0", "B", "&",
                           "text", "=", "C">>

C9_ManyOptional ==
    /\ Called("create-agenda-note") /\ ValidNoteBag(req.arguments)
    /\ Cardinality(Present("create-agenda-note", req.arguments)) >= 6
    /\ ~Has(req.arguments, "project_title")
    /\ Has(req.arguments, "select")
    /\ Len(handed) = 1

(***************************************************************************)
(* C10: the store changes only in an add-note call that passes validation; *)
(* every other request leaves it as it was.                                *)
(***************************************************************************)
C10_OnlyAddNoteWrites ==
    [][notes' # notes => (Handles("call_tool") /\ ValidAddNote(req))]_vars

C10_AgendaCallKeepsStore ==
    /\ Replied("call_tool") /\ req.name \in AgendaTools
    /\ outcome = "CalledProcessError"
    /\ Len(notes) = 2

====
